---- MODULE Spec2Model ----
(***************************************************************************)
(* State-machine model of the async-limiter Limiter class                  *)
(* (src/src/limiter.ts): admission, queueing, release hand-off,            *)
(* abort / queue-timeout removal and the onIdle synchroniser.              *)
(*                                                                         *)
(* JavaScript runs every handler to completion on one thread, so each      *)
(* action below is one synchronous stretch of code: a call of run() or     *)
(* onIdle() up to its first suspension, the dispatch of an abort event,    *)
(* the firing of one timer, the start of an admitted task, and the         *)
(* completion of a task together with the release() in run's finally.      *)
(***************************************************************************)
EXTENDS Integers, Sequences, FiniteSets, TLC

(***************************************************************************)
(* Bounds of the model.                                                    *)
(***************************************************************************)
\* Calls of run() and onIdle() made in one behaviour, together.
MaxCalls == 4
\* The limits the Limiter is constructed with are 1..MaxLimit.
MaxLimit == 2

RunIds == 1..MaxCalls
IdleIds == 1..MaxCalls

\* The AbortSignals of the environment.
Signals == {1}

(***************************************************************************)
(* JavaScript numbers.  A finite number is kept in halves (h = 2 * value)  *)
(* so that a non-integer option such as 0.5 is representable; NaN, the     *)
(* infinities and undefined are separate kinds.  Comparisons follow        *)
(* IEEE-754: any comparison with NaN (or undefined, which converts to      *)
(* NaN) is false.                                                          *)
(***************************************************************************)
Num(n) == [k |-> "fin", h |-> 2 * n]
Halves(h) == [k |-> "fin", h |-> h]
NaN == [k |-> "nan", h |-> 0]
Infinity == [k |-> "inf", h |-> 0]
NegInfinity == [k |-> "ninf", h |-> 0]
undefined == [k |-> "undefined", h |-> 0]

isFinite(x) == x.k = "fin"

NumLt(a, b) ==
    CASE a.k = "fin" /\ b.k = "fin" -> a.h < b.h
      [] a.k = "fin" /\ b.k = "inf" -> TRUE
      [] a.k = "ninf" /\ b.k \in {"fin", "inf"} -> TRUE
      [] OTHER -> FALSE

NumGe(a, b) ==
    CASE a.k = "fin" /\ b.k = "fin" -> a.h >= b.h
      [] a.k = "inf" /\ b.k \in {"fin", "inf", "ninf"} -> TRUE
      [] a.k = "fin" /\ b.k = "ninf" -> TRUE
      [] a.k = "ninf" /\ b.k = "ninf" -> TRUE
      [] OTHER -> FALSE

NumLe(a, b) == NumGe(b, a)

\* a ?? b
Coalesce(a, b) == IF a = undefined THEN b ELSE a

\* An absent AbortSignal (signal === undefined).
NoSignal == 0
\* Variant: the limiter's default signal is ignored.
CoalesceSignalNoDefault(a, b) == a

CoalesceSignal(a, b) == IF a = NoSignal THEN b ELSE a

(***************************************************************************)
(* Option validation.  TRUE means the assertion passes, FALSE that it      *)
(* throws RangeError.                                                      *)
(***************************************************************************)
assertValidLimit(l) == ~(~isFinite(l) \/ NumLe(l, Num(0)))

assertValidMaxQueue(mq) == ~((mq # Infinity /\ ~isFinite(mq)) \/ NumLt(mq, Num(0)))

\* Variant: only the sign is tested (ms < 0 without Number.isFinite).
assertValidTimeoutMsSignOnly(ms) ==
    IF ms = undefined THEN TRUE
    ELSE ~NumLt(ms, Num(0))

assertValidTimeoutMs(ms) ==
    IF ms = undefined THEN TRUE
    ELSE ~(~isFinite(ms) \/ NumLt(ms, Num(0)))

(***************************************************************************)
(* State.                                                                  *)
(***************************************************************************)
VARIABLES
    constructed,            \* new Limiter(...): "no" (not yet run), "ok", "RangeError"
    limit,                  \* this.limit
    maxQueue,               \* this.maxQueue
    defaultQueueTimeoutMs,  \* this.defaultQueueTimeoutMs
    defaultSignal,          \* this.defaultSignal
    active,                 \* this.active
    queue,                  \* this.queue: sequence of run ids (one entry per queued run)
    entries,                \* the QueueEntry (and its Defer) created by each run
    idleWaiters,            \* this.idleWaiters, in insertion order: onIdle call ids
    runs,                   \* where each run() call stands / how its promise settled
    idles,                  \* each onIdle() call: its promise, `done` flag and cleanups
    aborted,                \* signal.aborted of each AbortSignal
    listeners,              \* 'abort' listeners of each signal, in registration order
    timers,                 \* armed setTimeout timers
    nextRun,                \* id the next run() call gets (ids are in call order)
    nextIdle,               \* id the next onIdle() call gets
    admitLog                \* run ids in the order they were given a slot

vars == <<constructed, limit, maxQueue, defaultQueueTimeoutMs, defaultSignal, active, queue,
          entries, idleWaiters, runs, idles, aborted, listeners, timers,
          nextRun, nextIdle, admitLog>>

\* Fewer than MaxCalls calls have been made so far.
CanCall == (nextRun - 1) + (nextIdle - 1) < MaxCalls

config == <<constructed, limit, maxQueue, defaultQueueTimeoutMs, defaultSignal>>

\* Handlers registered as abort listeners or timer callbacks.
RunHandler(i) == [kind |-> "run", id |-> i]
IdleHandler(j) == [kind |-> "idle", id |-> j]

\* Cleanup closures.
RmAbort(s, h) == [fn |-> "rmAbort", signal |-> s, handler |-> h]
ClearTimeout(h) == [fn |-> "clearTimeout", signal |-> NoSignal, handler |-> h]

\* A QueueEntry that has not been created.
NoEntry == [created |-> FALSE, removed |-> FALSE, settled |-> FALSE, cleanup |-> <<>>]

\* makeQueueEntry(defer): removed = false, cleanup = [], and a fresh Defer
\* (settled = false).
makeQueueEntry == [created |-> TRUE, removed |-> FALSE, settled |-> FALSE, cleanup |-> <<>>]

NoIdle == [pc |-> "uncalled", done |-> FALSE, cleanups |-> <<>>]

\* The mutable state handed through the sequential code of a handler.
Heap == [active |-> active, queue |-> queue, entries |-> entries,
         idleWaiters |-> idleWaiters, runs |-> runs, idles |-> idles,
         listeners |-> listeners, timers |-> timers, admitLog |-> admitLog]

Commit(H) ==
    /\ active' = H.active
    /\ queue' = H.queue
    /\ entries' = H.entries
    /\ idleWaiters' = H.idleWaiters
    /\ runs' = H.runs
    /\ idles' = H.idles
    /\ listeners' = H.listeners
    /\ timers' = H.timers
    /\ admitLog' = H.admitLog

\* Sequence helpers for Array.prototype.indexOf / splice / filter.
RECURSIVE IndexOf(_, _, _)
IndexOf(s, x, from) ==
    IF from > Len(s) THEN 0
    ELSE IF s[from] = x THEN from
    ELSE IndexOf(s, x, from + 1)

indexOf(s, x) == IndexOf(s, x, 1)

splice1(s, idx) == SubSeq(s, 1, idx - 1) \o SubSeq(s, idx + 1, Len(s))

Without(s, x) == LET idx == indexOf(s, x) IN IF idx = 0 THEN s ELSE splice1(s, idx)

Range(s) == {s[n] : n \in 1..Len(s)}

\* The value of `next` when queue.shift() returned undefined.
NoRun == 0

(***************************************************************************)
(* Cleanup closures, entry.remove() and the Defer of a queue entry.        *)
(***************************************************************************)
\* One cleanup closure: signal.removeEventListener, clearTimeout, or
\* idleWaiters.delete.
RunCleanup(H, c) ==
    CASE c.fn = "rmAbort" -> [H EXCEPT !.listeners[c.signal] = Without(@, c.handler)]
      [] c.fn = "clearTimeout" -> [H EXCEPT !.timers = @ \ {c.handler}]
      [] c.fn = "deleteWaiter" -> [H EXCEPT !.idleWaiters = Without(@, c.handler.id)]

\* for (const fn of cleanup.splice(0)) fn();
RECURSIVE RunCleanups(_, _)
RunCleanups(H, cs) ==
    IF cs = <<>> THEN H ELSE RunCleanups(RunCleanup(H, Head(cs)), Tail(cs))

\* Variant: the entry is marked removed but its cleanup closures are dropped
\* without being called.
removeNoCleanup(H, i) ==
    IF H.entries[i].removed THEN H
    ELSE [H EXCEPT !.entries[i].removed = TRUE, !.entries[i].cleanup = <<>>]

\* entry.remove()
remove(H, i) ==
    IF H.entries[i].removed THEN H
    ELSE RunCleanups([H EXCEPT !.entries[i].removed = TRUE,
                               !.entries[i].cleanup = <<>>],
                     H.entries[i].cleanup)

\* Variant: resolve() without the `if (settled) return false` guard.
deferResolveUnguarded(H, i) ==
    [H |-> [H EXCEPT !.entries[i].settled = TRUE,
                     !.runs[i] = "admitted",
                     !.admitLog = Append(@, i)],
     ok |-> TRUE]

\* entry.defer.resolve(): the waiting run() call is given the slot.
deferResolve(H, i) ==
    IF H.entries[i].settled THEN [H |-> H, ok |-> FALSE]
    ELSE [H |-> [H EXCEPT !.entries[i].settled = TRUE,
                          !.runs[i] = "admitted",
                          !.admitLog = Append(@, i)],
          ok |-> TRUE]

\* entry.defer.reject(err): the waiting run() call fails with err.
deferReject(H, i, err) ==
    IF H.entries[i].settled THEN [H |-> H, ok |-> FALSE]
    ELSE [H |-> [H EXCEPT !.entries[i].settled = TRUE, !.runs[i] = err],
          ok |-> TRUE]

(***************************************************************************)
(* onIdle's finish(err) and emitIdleIfNeeded.                              *)
(***************************************************************************)
\* Variant: finish() settles the call without running cleanup().
finishNoCleanup(H, j, err) ==
    IF H.idles[j].done THEN H
    ELSE [H EXCEPT !.idles[j].done = TRUE,
                   !.idles[j].pc = IF err = "" THEN "resolved" ELSE err]

\* finish(err); err = "" is finish() without an error.
finish(H, j, err) ==
    IF H.idles[j].done THEN H
    ELSE LET H1 == RunCleanups([H EXCEPT !.idles[j].done = TRUE,
                                         !.idles[j].cleanups = <<>>],
                               H.idles[j].cleanups)
         IN [H1 EXCEPT !.idles[j].pc = IF err = "" THEN "resolved" ELSE err]

\* for (const w of Array.from(this.idleWaiters)) w();
RECURSIVE CallWaiters(_, _)
CallWaiters(H, ws) ==
    IF ws = <<>> THEN H ELSE CallWaiters(finish(H, Head(ws), ""), Tail(ws))

\* Variant: only the queue is looked at.
isIdleQueueOnly(H) == Len(H.queue) = 0

isIdle(H) == H.active = 0 /\ Len(H.queue) = 0

\* Variant: only the first registered waiter is called.
emitIdleFirstOnly(H) ==
    IF ~isIdle(H) \/ H.idleWaiters = <<>> THEN H
    ELSE finish(H, Head(H.idleWaiters), "")

emitIdleIfNeeded(H) ==
    IF ~isIdle(H) THEN H ELSE CallWaiters(H, H.idleWaiters)

(***************************************************************************)
(* release() and shiftNext().                                              *)
(***************************************************************************)
\* Variant: entries are taken from the tail of the queue (pop for shift).
RECURSIVE shiftNextLast(_)
shiftNextLast(H) ==
    IF H.queue = <<>> THEN [H |-> H, next |-> NoRun]
    ELSE LET next == H.queue[Len(H.queue)]
             H1 == [H EXCEPT !.queue = SubSeq(@, 1, Len(@) - 1)]
         IN IF H1.entries[next].removed THEN shiftNextLast(H1)
            ELSE [H |-> H1, next |-> next]

RECURSIVE shiftNext(_)
shiftNext(H) ==
    IF H.queue = <<>> THEN [H |-> H, next |-> NoRun]
    ELSE LET next == Head(H.queue)
             H1 == [H EXCEPT !.queue = Tail(@)]
         IN IF H1.entries[next].removed THEN shiftNext(H1)
            ELSE [H |-> H1, next |-> next]

\* Variant: the slot is freed without the idle check (no emitIdleIfNeeded()).
releaseNoIdleCheck(H) ==
    LET s == shiftNext(H) IN
    IF s.next = NoRun
    THEN [s.H EXCEPT !.active = @ - 1]
    ELSE deferResolve(remove(s.H, s.next), s.next).H

\* Variant: the slot is freed although it was handed to a queued entry.
releaseAlwaysDecrements(H) ==
    LET s == shiftNext(H) IN
    IF s.next = NoRun
    THEN emitIdleIfNeeded([s.H EXCEPT !.active = @ - 1])
    ELSE [deferResolve(remove(s.H, s.next), s.next).H EXCEPT !.active = @ - 1]

\* Variant: no retry; a failed resolve() ends release().
releaseNoRetry(H) ==
    LET s == shiftNext(H) IN
    IF s.next = NoRun
    THEN emitIdleIfNeeded([s.H EXCEPT !.active = @ - 1])
    ELSE deferResolve(remove(s.H, s.next), s.next).H

\* Variant: release() always frees the slot and never promotes a queued entry.
releaseNoHandoff(H) == emitIdleIfNeeded([H EXCEPT !.active = @ - 1])

RECURSIVE release(_)
release(H) ==
    LET s == shiftNext(H) IN
    IF s.next = NoRun
    THEN emitIdleIfNeeded([s.H EXCEPT !.active = @ - 1])
    ELSE LET r == deferResolve(remove(s.H, s.next), s.next)
         IN IF r.ok THEN r.H ELSE release(r.H)

\* Variant: release() runs only when the task succeeds (no finally).
settleTaskNoFinally(H, i, outcome) ==
    IF outcome = "fulfilled" THEN release([H EXCEPT !.runs[i] = outcome])
    ELSE [H EXCEPT !.runs[i] = outcome]

\* try { return await fn(); } finally { this.release(); }: the task ends with
\* `outcome` ("fulfilled" or "TaskError") and release() runs.
settleTask(H, i, outcome) == release([H EXCEPT !.runs[i] = outcome])

(***************************************************************************)
(* run() -> acquire() -> waitForTurn().                                    *)
(***************************************************************************)
isAborted(signal) == signal # NoSignal /\ aborted[signal]

\* addAbortHandler(signal, onAbort) followed by cleanup.push(rmAbort).
addAbortHandler(H, signal, h, isEntry) ==
    IF signal = NoSignal THEN H
    ELSE LET H1 == [H EXCEPT !.listeners[signal] = Append(@, h)]
         IN IF isEntry
            THEN [H1 EXCEPT !.entries[h.id].cleanup = Append(@, RmAbort(signal, h))]
            ELSE [H1 EXCEPT !.idles[h.id].cleanups = Append(@, RmAbort(signal, h))]

\* Variant: the timer is armed but clearTimeout is not pushed to entry.cleanup.
addQueueTimerNoCleanup(H, i, queueTimeoutMs) ==
    IF queueTimeoutMs = undefined THEN H
    ELSE [H EXCEPT !.timers = @ \cup {RunHandler(i)}]

\* setTimeout(..., queueTimeoutMs) followed by entry.cleanup.push(clearTimeout).
addQueueTimer(H, i, queueTimeoutMs) ==
    IF queueTimeoutMs = undefined THEN H
    ELSE [H EXCEPT !.timers = @ \cup {RunHandler(i)},
                   !.entries[i].cleanup = Append(@, ClearTimeout(RunHandler(i)))]

\* Variant: the entry is put at the head of the queue (unshift for push).
enqueueFront(H, i) == [H EXCEPT !.queue = <<i>> \o @, !.runs[i] = "waiting"]

\* this.queue.push(entry)
enqueue(H, i) == [H EXCEPT !.queue = Append(@, i), !.runs[i] = "waiting"]

waitForTurn(H, i, signal, queueTimeoutMs) ==
    IF isAborted(signal) THEN [H EXCEPT !.runs[i] = "AbortError"]
    ELSE LET H1 == [H EXCEPT !.entries[i] = makeQueueEntry]
             H2 == addAbortHandler(H1, signal, RunHandler(i), TRUE)
             H3 == addQueueTimer(H2, i, queueTimeoutMs)
         IN enqueue(H3, i)

\* Variant: off by one (<= for <).
hasFreeSlotOffByOne(H) == NumLe(Num(H.active), limit)

\* this.active < this.limit
hasFreeSlot(H) == NumLt(Num(H.active), limit)

\* Variant: off by one (> for >=).
queueIsFullStrict(H) == NumLt(maxQueue, Num(Len(H.queue)))

\* this.queue.length >= this.maxQueue
queueIsFull(H) == NumGe(Num(Len(H.queue)), maxQueue)

\* Variant: the slot is given without counting it (no this.active++).
admitNowNoIncrement(H, i) ==
    [H EXCEPT !.runs[i] = "admitted", !.admitLog = Append(@, i)]

\* this.active++; return;
admitNow(H, i) ==
    [H EXCEPT !.active = @ + 1, !.runs[i] = "admitted", !.admitLog = Append(@, i)]

\* Variant: the overflow check comes before the free-slot check.
acquireOverflowFirst(H, i, signal, queueTimeoutMs) ==
    IF isAborted(signal) THEN [H EXCEPT !.runs[i] = "AbortError"]
    ELSE IF queueIsFull(H) THEN [H EXCEPT !.runs[i] = "QueueOverflowError"]
    ELSE IF hasFreeSlot(H) THEN admitNow(H, i)
    ELSE waitForTurn(H, i, signal, queueTimeoutMs)

acquire(H, i, signal, queueTimeoutMs) ==
    IF isAborted(signal) THEN [H EXCEPT !.runs[i] = "AbortError"]
    ELSE IF hasFreeSlot(H) THEN admitNow(H, i)
    ELSE IF queueIsFull(H) THEN [H EXCEPT !.runs[i] = "QueueOverflowError"]
    ELSE waitForTurn(H, i, signal, queueTimeoutMs)

\* run(fn, options) up to its first suspension.
run(H, i, signal, queueTimeoutMs) ==
    IF ~assertValidTimeoutMs(queueTimeoutMs) THEN [H EXCEPT !.runs[i] = "RangeError"]
    ELSE IF isAborted(signal) THEN [H EXCEPT !.runs[i] = "AbortError"]
    ELSE acquire(H, i, signal, queueTimeoutMs)

(***************************************************************************)
(* Handlers of a queued run: removeFromQueue, the abort listener and the   *)
(* queue timer.                                                            *)
(***************************************************************************)
\* Variant: the entry is tombstoned but left in the queue (no splice).
removeFromQueueNoSplice(H, i) ==
    IF H.entries[i].removed THEN H ELSE emitIdleIfNeeded(remove(H, i))

\* Variant: splice(idx) for splice(idx, 1): everything from idx on is removed.
removeFromQueueSpliceTail(H, i) ==
    IF H.entries[i].removed THEN H
    ELSE LET H1 == remove(H, i)
             idx == indexOf(H1.queue, i)
             H2 == IF idx >= 1 THEN [H1 EXCEPT !.queue = SubSeq(@, 1, idx - 1)] ELSE H1
         IN emitIdleIfNeeded(H2)

\* Variant: removing a queued entry also frees a slot (this.active--).
removeFromQueueFreesSlot(H, i) ==
    IF H.entries[i].removed THEN H
    ELSE LET H1 == remove(H, i)
             idx == indexOf(H1.queue, i)
             H2 == IF idx >= 1 THEN [H1 EXCEPT !.queue = splice1(@, idx)] ELSE H1
         IN emitIdleIfNeeded([H2 EXCEPT !.active = @ - 1])

removeFromQueue(H, i) ==
    IF H.entries[i].removed THEN H
    ELSE LET H1 == remove(H, i)
             idx == indexOf(H1.queue, i)
             H2 == IF idx >= 1 THEN [H1 EXCEPT !.queue = splice1(@, idx)] ELSE H1
         IN emitIdleIfNeeded(H2)

\* Variant: the abort listener rejects the entry and leaves it in the queue.
onAbortRunRejectOnly(H, i) == deferReject(H, i, "AbortError").H

\* Variant: the abort listener removes the entry but does not reject it.
onAbortRunNoReject(H, i) == removeFromQueue(H, i)

onAbortRun(H, i) == deferReject(removeFromQueue(H, i), i, "AbortError").H

onQueueTimeout(H, i) == deferReject(removeFromQueue(H, i), i, "QueueTimeoutError").H

(***************************************************************************)
(* onIdle(options) up to its first suspension.                             *)
(***************************************************************************)
registerIdle(H, j, signal, timeoutMs) ==
    LET h == IdleHandler(j)
        H1 == [H EXCEPT !.idles[j] = [pc |-> "pending", done |-> FALSE,
                                      cleanups |-> <<[fn |-> "deleteWaiter",
                                                      signal |-> NoSignal,
                                                      handler |-> h]>>],
                        !.idleWaiters = Append(@, j)]
        H2 == addAbortHandler(H1, signal, h, FALSE)
        H3 == IF timeoutMs = undefined THEN H2
              ELSE [H2 EXCEPT !.timers = @ \cup {h},
                              !.idles[j].cleanups = Append(@, ClearTimeout(h))]
    IN emitIdleIfNeeded(H3)

\* Variant: no idle fast path; the call always registers.
onIdleNoFastPath(H, j, signal, timeoutMs) ==
    IF ~assertValidTimeoutMs(timeoutMs) THEN [H EXCEPT !.idles[j].pc = "RangeError"]
    ELSE IF isAborted(signal) THEN [H EXCEPT !.idles[j].pc = "AbortError"]
    ELSE registerIdle(H, j, signal, timeoutMs)

\* Variant: the idle fast path is tried before the abort check.
onIdleIdleFirst(H, j, signal, timeoutMs) ==
    IF ~assertValidTimeoutMs(timeoutMs) THEN [H EXCEPT !.idles[j].pc = "RangeError"]
    ELSE IF isIdle(H) THEN [H EXCEPT !.idles[j].pc = "resolved"]
    ELSE IF isAborted(signal) THEN [H EXCEPT !.idles[j].pc = "AbortError"]
    ELSE registerIdle(H, j, signal, timeoutMs)

onIdle(H, j, signal, timeoutMs) ==
    IF ~assertValidTimeoutMs(timeoutMs) THEN [H EXCEPT !.idles[j].pc = "RangeError"]
    ELSE IF isAborted(signal) THEN [H EXCEPT !.idles[j].pc = "AbortError"]
    ELSE IF isIdle(H) THEN [H EXCEPT !.idles[j].pc = "resolved"]
    ELSE registerIdle(H, j, signal, timeoutMs)

\* Variant: the idle timer rejects with the queue-wait error kind.
onIdleTimeoutWrongKind(H, j) == finish(H, j, "QueueTimeoutError")

\* setTimeout(() => finish(new IdleTimeoutError()), timeoutMs)
onIdleTimeout(H, j) == finish(H, j, "IdleTimeoutError")

(***************************************************************************)
(* Dispatch of an 'abort' event: the listeners registered at the time of   *)
(* the dispatch run in registration order; each is registered with         *)
(* { once: true }, so it is detached before it is called, and a listener   *)
(* detached while the dispatch is under way is not called.                 *)
(***************************************************************************)
onAbort(H, h) ==
    IF h.kind = "run" THEN onAbortRun(H, h.id)
    ELSE finish(H, h.id, "AbortError")

RECURSIVE dispatchAbort(_, _, _)
dispatchAbort(H, s, ls) ==
    IF ls = <<>> THEN H
    ELSE LET h == Head(ls) IN
         IF indexOf(H.listeners[s], h) = 0 THEN dispatchAbort(H, s, Tail(ls))
         ELSE dispatchAbort(onAbort([H EXCEPT !.listeners[s] = Without(@, h)], h),
                            s, Tail(ls))

(***************************************************************************)
(* Inputs.                                                                 *)
(***************************************************************************)
SignalOptions == {NoSignal} \cup Signals

\* queueTimeoutMs / timeoutMs given to a call: absent, valid, and invalid.
TimeoutOptions == {undefined, Num(50), Num(-1), NaN}

\* Constructor arguments that pass the constructor's assertions.
LimitValues == {Num(n) : n \in 1..MaxLimit}
MaxQueueValues == {Num(0), Num(1), Infinity}
DefaultTimeoutValues == {undefined, Num(50)}

(***************************************************************************)
(* Initial state: a Limiter just constructed.                              *)
(***************************************************************************)
\* The field initialisers (active = 0, queue = [], idleWaiters = new Set()) and
\* an environment in which nothing has been called, aborted or armed.
FieldInit ==
    /\ active = 0
    /\ queue = <<>>
    /\ entries = [i \in RunIds |-> NoEntry]
    /\ idleWaiters = <<>>
    /\ runs = [i \in RunIds |-> "uncalled"]
    /\ idles = [j \in IdleIds |-> NoIdle]
    /\ aborted = [s \in Signals |-> FALSE]
    /\ listeners = [s \in Signals |-> <<>>]
    /\ timers = {}
    /\ nextRun = 1
    /\ nextIdle = 1
    /\ admitLog = <<>>

Init ==
    /\ constructed = "ok"
    /\ limit \in LimitValues
    /\ maxQueue \in MaxQueueValues
    /\ defaultQueueTimeoutMs \in DefaultTimeoutValues
    /\ defaultSignal \in SignalOptions
    /\ assertValidLimit(limit)
    /\ assertValidMaxQueue(maxQueue)
    /\ assertValidTimeoutMs(defaultQueueTimeoutMs)
    /\ FieldInit

(***************************************************************************)
(* Actions.                                                                *)
(***************************************************************************)
\* limiter.run(fn, { signal, queueTimeoutMs })
Run(optSignal, optMs) ==
    /\ constructed = "ok"
    /\ CanCall
    /\ LET signal == CoalesceSignal(optSignal, defaultSignal)
           queueTimeoutMs == Coalesce(optMs, defaultQueueTimeoutMs)
       IN Commit(run(Heap, nextRun, signal, queueTimeoutMs))
    /\ nextRun' = nextRun + 1
    /\ UNCHANGED <<config, aborted, nextIdle>>

\* The continuation of run() after `await this.acquire(...)`: fn() is called and
\* returns a value or a promise; run() suspends at `await fn()`.
Start(i) ==
    /\ runs[i] = "admitted"
    /\ runs' = [runs EXCEPT ![i] = "running"]
    /\ UNCHANGED <<config, active, queue, entries, idleWaiters, idles, aborted,
                   listeners, timers, nextRun, nextIdle, admitLog>>

\* The same continuation when fn() throws synchronously: the finally block
\* runs release() in the same stretch.
StartThrows(i) ==
    /\ runs[i] = "admitted"
    /\ Commit(settleTask(Heap, i, "TaskError"))
    /\ UNCHANGED <<config, aborted, nextRun, nextIdle>>

\* The task's promise settles; run() resumes, the finally block runs release().
Complete(i, ok) ==
    /\ runs[i] = "running"
    /\ Commit(settleTask(Heap, i, IF ok THEN "fulfilled" ELSE "TaskError"))
    /\ UNCHANGED <<config, aborted, nextRun, nextIdle>>

\* controller.abort(): signal.aborted becomes true, then the listeners run.
Abort(s) ==
    /\ ~aborted[s]
    /\ aborted' = [aborted EXCEPT ![s] = TRUE]
    /\ Commit(dispatchAbort(Heap, s, listeners[s]))
    /\ UNCHANGED <<config, nextRun, nextIdle>>

\* The queue-wait timer of run i fires.
QueueTimeout(i) ==
    /\ RunHandler(i) \in timers
    /\ Commit(onQueueTimeout([Heap EXCEPT !.timers = @ \ {RunHandler(i)}], i))
    /\ UNCHANGED <<config, aborted, nextRun, nextIdle>>

\* limiter.onIdle({ signal, timeoutMs })
OnIdle(signal, timeoutMs) ==
    /\ constructed = "ok"
    /\ CanCall
    /\ Commit(onIdle(Heap, nextIdle, signal, timeoutMs))
    /\ nextIdle' = nextIdle + 1
    /\ UNCHANGED <<config, aborted, nextRun>>

\* The timer of onIdle call j fires.
IdleTimeout(j) ==
    /\ IdleHandler(j) \in timers
    /\ Commit(onIdleTimeout([Heap EXCEPT !.timers = @ \ {IdleHandler(j)}], j))
    /\ UNCHANGED <<config, aborted, nextRun, nextIdle>>

Next ==
    \/ \E s \in SignalOptions, ms \in TimeoutOptions : Run(s, ms)
    \/ \E i \in RunIds : Start(i)
    \/ \E i \in RunIds : StartThrows(i)
    \/ \E i \in RunIds, ok \in BOOLEAN : Complete(i, ok)
    \/ \E s \in Signals : Abort(s)
    \/ \E i \in RunIds : QueueTimeout(i)
    \/ \E s \in SignalOptions, ms \in TimeoutOptions : OnIdle(s, ms)
    \/ \E j \in IdleIds : IdleTimeout(j)

Spec == Init /\ [][Next]_vars

\* The continuation of run() after `await this.acquire(...)` is a queued
\* microtask, which the event loop runs: an admitted run calls fn().
Fairness == \A i \in RunIds : WF_vars(Start(i))

\* The assumption "every admitted task eventually completes": the promise
\* returned by fn() settles, so no run stays at `await fn()` for ever.
TasksComplete == \A i \in RunIds : []<>(runs[i] # "running")

\* A limiter constructed without defaults.  run() uses only the coalesced
\* options (options.signal ?? this.defaultSignal, options.queueTimeoutMs ??
\* this.defaultQueueTimeoutMs), and the calls below range over every signal and
\* timeout, so the gate behaves under defaults as it does in some behaviour here.
InitFair ==
    /\ Init
    /\ defaultSignal = NoSignal
    /\ defaultQueueTimeoutMs = undefined

SpecFair == InitFair /\ [][Next]_vars /\ Fairness /\ TasksComplete

(***************************************************************************)
(* Construction as a step: new Limiter(limit, { maxQueue, queueTimeoutMs,  *)
(* signal }) with arguments of every kind, accepted or not.                *)
(***************************************************************************)
\* limit: -0.5, 0, 0.5, 1, 1.5 and the non-finite numbers.
LimitArgs ==
    {Halves(h) : h \in -1..3} \cup {NaN, Infinity, NegInfinity}

\* options.maxQueue: absent (the default applies), valid and invalid.
MaxQueueArgs == {undefined, Num(0), Infinity, Num(-1), NaN, NegInfinity}

\* options.queueTimeoutMs: absent, valid and invalid.
QueueTimeoutArgs == {undefined, Num(0), Num(-1), NaN, Infinity, NegInfinity}

\* const { maxQueue = Number.POSITIVE_INFINITY } = options
DefaultMaxQueue(mq) == IF mq = undefined THEN Infinity ELSE mq

\* The three assertions of the constructor: TRUE when none throws.
constructorAccepts(l, mq, ms) ==
    /\ assertValidLimit(l)
    /\ assertValidMaxQueue(DefaultMaxQueue(mq))
    /\ assertValidTimeoutMs(ms)

\* No Limiter exists yet: the fields are unassigned.
InitCtor ==
    /\ constructed = "no"
    /\ limit = undefined
    /\ maxQueue = undefined
    /\ defaultQueueTimeoutMs = undefined
    /\ defaultSignal = NoSignal
    /\ FieldInit

\* new Limiter(l, { maxQueue: mq, queueTimeoutMs: ms, signal: s })
Construct(l, mq, ms, s) ==
    /\ constructed = "no"
    /\ IF constructorAccepts(l, mq, ms)
       THEN /\ constructed' = "ok"
            /\ limit' = l
            /\ maxQueue' = DefaultMaxQueue(mq)
            /\ defaultQueueTimeoutMs' = ms
            /\ defaultSignal' = s
       ELSE /\ constructed' = "RangeError"
            /\ UNCHANGED <<limit, maxQueue, defaultQueueTimeoutMs, defaultSignal>>
    /\ UNCHANGED <<active, queue, entries, idleWaiters, runs, idles, aborted,
                   listeners, timers, nextRun, nextIdle, admitLog>>

\* The one constructor call of a behaviour, with any arguments.
New ==
    /\ constructed = "no"
    /\ \E l \in LimitArgs, mq \in MaxQueueArgs, ms \in QueueTimeoutArgs,
          s \in SignalOptions : Construct(l, mq, ms, s)

\* run() and onIdle() exist only on a constructed Limiter; the environment may
\* abort its signal at any time.
NextCtor == New \/ Next

SpecCtor == InitCtor /\ [][NextCtor]_vars

(***************************************************************************)
(* Vocabulary of the properties.                                           *)
(***************************************************************************)
\* Run i was queued: waitForTurn created a QueueEntry for it.
WasQueued(i) == entries[i].created

\* Run i holds a slot or has held one.
Admitted(i) == runs[i] \in {"admitted", "running", "fulfilled", "TaskError"}

\* Run i was queued and then given a slot by release().
HandedOff(i) == WasQueued(i) /\ Admitted(i)

\* Run i was queued and then rejected by its abort listener or its queue timer.
Removed(i) == WasQueued(i) /\ runs[i] \in {"AbortError", "QueueTimeoutError"}

\* The queued entries that are neither tombstoned nor settled, in queue order.
IsLive(n) == ~entries[n].removed /\ ~entries[n].settled
LiveQueue == SelectSeq(queue, IsLive)

\* This step ran release(): a task that held a slot completed.
ReleaseStep ==
    \E i \in RunIds : /\ runs[i] \in {"admitted", "running"}
                      /\ runs'[i] \in {"fulfilled", "TaskError"}

\* The signal and timeout a call of run(fn, {signal: s, queueTimeoutMs: ms}) uses.
EffectiveSignal(s) == IF s = NoSignal THEN defaultSignal ELSE s
EffectiveTimeout(ms) == IF ms = undefined THEN defaultQueueTimeoutMs ELSE ms
ValidTimeout(ms) == ms = undefined \/ (ms.k = "fin" /\ ms.h >= 0)

\* Everything a call of run() could touch besides its own outcome.
GateUntouched ==
    /\ active' = active
    /\ queue' = queue
    /\ entries' = entries
    /\ idleWaiters' = idleWaiters
    /\ idles' = idles
    /\ listeners' = listeners
    /\ timers' = timers
    /\ admitLog' = admitLog
    /\ \A k \in RunIds : k # nextRun => runs'[k] = runs[k]

(***************************************************************************)
(* C1.  With a positive integer limit, 0 <= activeCount <= limit in every  *)
(* reachable state, under every interleaving of run calls, task            *)
(* completions, aborts, queue timeouts and onIdle calls.                   *)
(***************************************************************************)
C1_ActiveWithinLimit ==
    (limit.k = "fin" /\ limit.h % 2 = 0 /\ limit.h > 0)
        => (0 <= active /\ 2 * active <= limit.h)

\* The gate is saturated at limit 2 with a run waiting, and one of the two
\* running tasks got its slot by hand-off.
C1_Witness ==
    /\ limit = Num(2)
    /\ active = 2
    /\ Len(queue) >= 1
    /\ \E i \in RunIds : HandedOff(i) /\ runs[i] = "running"

(***************************************************************************)
(* C2.  Queued runs are admitted in arrival order: a queued run B is never *)
(* given the slot in a step in which a run A queued before it is waiting,  *)
(* and of two queued runs that were both admitted the one queued first was *)
(* admitted first.  (Run ids are in call order, so A queued before B is    *)
(* A < B.)                                                                 *)
(***************************************************************************)
AdmitOrderFIFO ==
    \A m, n \in 1..Len(admitLog) :
        (m < n /\ WasQueued(admitLog[m]) /\ WasQueued(admitLog[n]))
            => admitLog[m] < admitLog[n]

NoOvertaking ==
    \A a, b \in RunIds :
        (a < b /\ runs[a] = "waiting" /\ runs[b] = "waiting")
            => runs'[b] # "admitted"

C2_FIFO == []AdmitOrderFIFO /\ [][NoOvertaking]_vars

\* Three queued runs were handed the slot one after the other.
C2_Witness ==
    \E a, b, c \in RunIds : a < b /\ b < c /\ HandedOff(a) /\ HandedOff(b) /\ HandedOff(c)

(***************************************************************************)
(* C3.  A removed entry never blocks the queue: when a task completes      *)
(* while a live entry is queued, that release gives the slot to the        *)
(* earliest live entry (active is unchanged, every other waiting run keeps *)
(* waiting), however many entries before or after it were aborted or timed *)
(* out.                                                                    *)
(***************************************************************************)
C3_Step ==
    (ReleaseStep /\ LiveQueue # <<>>) =>
        /\ runs'[Head(LiveQueue)] = "admitted"
        /\ active' = active
        /\ \A k \in RunIds :
              (runs[k] = "waiting" /\ k # Head(LiveQueue)) => runs'[k] = "waiting"

C3_NoBlocking == [][C3_Step]_vars

\* A queued run was handed the slot although a run queued before it and a
\* run queued after it had been removed by abort or timeout.
C3_Witness ==
    \E a, b, c \in RunIds :
        /\ a < b /\ b < c
        /\ Removed(a) /\ HandedOff(b) /\ Removed(c)
        /\ runs[a] # runs[c]

(***************************************************************************)
(* C4.  An onIdle call is resolved only in a step after which              *)
(* activeCount = 0 and pendingCount = 0.                                   *)
(***************************************************************************)
C4_Step ==
    \A j \in IdleIds :
        (idles[j].pc # "resolved" /\ idles'[j].pc = "resolved")
            => (active' = 0 /\ Len(queue') = 0)

C4_IdleOnlyWhenIdle == [][C4_Step]_vars

\* An onIdle call that had to wait (finish() ran for it) was resolved, after
\* runs had been queued and handed off.
C4_Witness ==
    /\ \E j \in IdleIds : idles[j].pc = "resolved" /\ idles[j].done
    /\ \E i \in RunIds : HandedOff(i)

(***************************************************************************)
(* C5.  Idle notification is a broadcast: in the step in which the gate    *)
(* becomes idle (active = 0 and the queue empty), every onIdle call that   *)
(* is pending is resolved.                                                 *)
(***************************************************************************)
GateIdle == active = 0 /\ Len(queue) = 0

C5_Step ==
    (~GateIdle /\ GateIdle') =>
        \A j \in IdleIds : idles[j].pc = "pending" => idles'[j].pc = "resolved"

C5_Broadcast == [][C5_Step]_vars

\* Three onIdle calls that were pending together have all been resolved.
C5_Witness ==
    \E j, k, l \in IdleIds :
        /\ j < k /\ k < l
        /\ \A x \in {j, k, l} : idles[x].pc = "resolved" /\ idles[x].done

(***************************************************************************)
(* C6.  pendingCount (queue.length) equals the number of live entries in   *)
(* the queue: between operations the queue holds no tombstoned entry.      *)
(***************************************************************************)
C6_PendingCountIsLive ==
    /\ Len(queue) = Len(SelectSeq(queue, IsLive))
    /\ \A n \in 1..Len(queue) : ~entries[queue[n]].removed

\* An entry was removed by abort and another by timeout while a third run is
\* still queued.
C6_Witness ==
    /\ Len(queue) >= 1
    /\ \E a, b \in RunIds :
          /\ Removed(a) /\ runs[a] = "AbortError"
          /\ Removed(b) /\ runs[b] = "QueueTimeoutError"

(***************************************************************************)
(* C7.  With a non-negative integer maxQueue, pendingCount <= maxQueue in  *)
(* every reachable state; with maxQueue = 0 no run is ever queued.         *)
(***************************************************************************)
C7_QueueBounded ==
    (maxQueue.k = "fin" /\ maxQueue.h % 2 = 0 /\ maxQueue.h >= 0) =>
        /\ 2 * Len(queue) <= maxQueue.h
        /\ maxQueue.h = 0 => \A i \in RunIds : ~WasQueued(i)

\* The queue is at its capacity of 1 and a later run has overflowed.
C7_Witness ==
    /\ maxQueue = Num(1)
    /\ Len(queue) = 1
    /\ \E i \in RunIds : runs[i] = "QueueOverflowError" /\ i > Head(queue)

(***************************************************************************)
(* C8.  A run call that passes option validation and whose signal is not   *)
(* aborted fails with QueueOverflowError exactly when active >= limit and  *)
(* queue.length >= maxQueue at call time; then nothing but the call's own  *)
(* outcome changes (no entry, active, queue, idle waiters and the other    *)
(* runs as they were).  When a slot is free the call is admitted, also     *)
(* with maxQueue = 0.                                                      *)
(***************************************************************************)
C8_Call(s, ms) ==
    LET noSlot == 2 * active >= limit.h
        full == maxQueue.k = "fin" /\ 2 * Len(queue) >= maxQueue.h
    IN /\ (runs'[nextRun] = "QueueOverflowError") <=> (noSlot /\ full)
       /\ (noSlot /\ full) => GateUntouched
       /\ ~noSlot => (runs'[nextRun] = "admitted" /\ active' = active + 1)

C8_Step ==
    \A s \in SignalOptions, ms \in TimeoutOptions :
        ( /\ nextRun' # nextRun
          /\ Run(s, ms)
          /\ ValidTimeout(EffectiveTimeout(ms))
          /\ ~(EffectiveSignal(s) # NoSignal /\ aborted[EffectiveSignal(s)]) )
            => C8_Call(s, ms)

C8_Overflow == [][C8_Step]_vars

\* Scenario B: maxQueue = 0, a run overflowed while an earlier one was
\* running, and that earlier run has completed normally.
C8_Witness ==
    /\ maxQueue = Num(0)
    /\ \E a, b \in RunIds :
          a < b /\ runs[a] = "fulfilled" /\ runs[b] = "QueueOverflowError"

(***************************************************************************)
(* C9.  A run call that passes option validation and whose effective       *)
(* signal (options.signal ?? the limiter's default) is already aborted     *)
(* fails with AbortError: no queue entry, active not incremented, and the  *)
(* task never run, whether or not a slot is free or the queue is full.     *)
(***************************************************************************)
C9_Step ==
    /\ \A s \in SignalOptions, ms \in TimeoutOptions :
          ( /\ nextRun' # nextRun
            /\ Run(s, ms)
            /\ ValidTimeout(EffectiveTimeout(ms))
            /\ EffectiveSignal(s) # NoSignal /\ aborted[EffectiveSignal(s)] )
              => (runs'[nextRun] = "AbortError" /\ GateUntouched)
    /\ \A i \in RunIds :
          (runs[i] = "AbortError" /\ ~WasQueued(i))
              => (runs'[i] = "AbortError" /\ ~WasQueued(i)')

C9_AbortedAtCall == [][C9_Step]_vars

\* A run was rejected at call time (it never had an entry) while the queue
\* was full and no slot free: an earlier run is still waiting in the queue of
\* capacity 1.
C9_Witness ==
    /\ maxQueue = Num(1)
    /\ \E k, i \in RunIds :
          /\ k < i
          /\ runs[k] = "waiting"
          /\ runs[i] = "AbortError" /\ ~WasQueued(i)

(***************************************************************************)
(* C10.  A waiting run whose signal is aborted fails with AbortError, and  *)
(* a waiting run whose queue timer fires fails with QueueTimeoutError; its *)
(* task is never run, it leaves the queue, and a release that finds runs   *)
(* waiting afterwards still hands the slot to one of them.                 *)
(***************************************************************************)
C10_Step ==
    /\ \A s \in Signals, i \in RunIds :
          ( /\ ~aborted[s] /\ aborted'[s]
            /\ runs[i] = "waiting"
            /\ RunHandler(i) \in Range(listeners[s]) )
              => runs'[i] = "AbortError"
    /\ \A i \in RunIds :
          (QueueTimeout(i) /\ runs[i] = "waiting") => runs'[i] = "QueueTimeoutError"
    /\ \A i \in RunIds :
          Removed(i) => (runs'[i] = runs[i] /\ i \notin Range(queue))
    /\ (ReleaseStep /\ \E k \in RunIds : runs[k] = "waiting")
          => \E k \in RunIds : runs[k] = "waiting" /\ runs'[k] = "admitted"

C10_QueuedRejection == [][C10_Step]_vars

\* Scenarios C and D with maxQueue = 1: a run timed out in the queue,
\* another was aborted in the queue, and a run queued after them (the queue
\* holds one entry) ran to completion.
C10_Witness ==
    /\ maxQueue = Num(1)
    /\ \E a, b, c \in RunIds :
          /\ a < c /\ b < c
          /\ Removed(a) /\ runs[a] = "QueueTimeoutError"
          /\ Removed(b) /\ runs[b] = "AbortError"
          /\ HandedOff(c) /\ runs[c] = "fulfilled"

(***************************************************************************)
(* C11.  Removing a queued entry on abort or timeout takes exactly that    *)
(* entry out of the queue at once (pendingCount drops by one per removed   *)
(* entry), leaves active unchanged and leaves the other queued entries in  *)
(* place in the same order, wherever the removed entry sat.  (An abort     *)
(* removes every waiting run that listens on the aborted signal.)          *)
(***************************************************************************)
ListensOn(s, n) == RunHandler(n) \in Range(listeners[s])

C11_Step ==
    /\ \A i \in RunIds :
          (QueueTimeout(i) /\ runs[i] = "waiting") =>
              /\ i \in Range(queue)
              /\ queue' = SelectSeq(queue, LAMBDA n : n # i)
              /\ Len(queue') = Len(queue) - 1
              /\ active' = active
    /\ \A s \in Signals :
          (~aborted[s] /\ aborted'[s]) =>
              /\ queue' = SelectSeq(queue, LAMBDA n : ~ListensOn(s, n))
              /\ Len(queue') = Len(queue) - Cardinality({n \in Range(queue) : ListensOn(s, n)})
              /\ active' = active

C11_RemovalFrame == [][C11_Step]_vars

\* The middle one of three queued runs was removed; the runs before and after
\* it are still queued, in order.
C11_Witness ==
    \E a, b, c \in RunIds :
        /\ a < b /\ b < c
        /\ Removed(b)
        /\ queue = <<a, c>>

(***************************************************************************)
(* C12.  Every queued run is settled exactly once.  The first of hand-off, *)
(* abort and queue timeout decides the outcome; after that the outcome     *)
(* never changes kind, the run is given a slot at most once, and a         *)
(* resolve, a reject, the abort listener or the timer callback applied to  *)
(* the settled entry returns false / changes nothing.                      *)
(***************************************************************************)
Occurrences(s, x) == Cardinality({n \in 1..Len(s) : s[n] = x})

C12_SettledIsFinal ==
    \A i \in RunIds :
        /\ Occurrences(admitLog, i) <= 1
        /\ WasQueued(i) => (entries[i].settled <=> runs[i] # "waiting")
        /\ entries[i].settled =>
              /\ deferResolve(Heap, i) = [H |-> Heap, ok |-> FALSE]
              /\ deferReject(Heap, i, "AbortError") = [H |-> Heap, ok |-> FALSE]
              /\ onAbortRun(Heap, i) = Heap
              /\ onQueueTimeout(Heap, i) = Heap

C12_Step ==
    \A i \in RunIds :
        /\ (~entries[i].settled /\ entries'[i].settled)
              => runs'[i] \in {"admitted", "AbortError", "QueueTimeoutError"}
        /\ entries[i].settled =>
              /\ entries'[i].settled
              /\ Removed(i) => runs'[i] = runs[i]
              /\ Admitted(i) => Admitted(i)'

C12_SettledOnce == []C12_SettledIsFinal /\ [][C12_Step]_vars

\* Timeout and abort on the same entry: every run uses the limiter's default
\* signal, a queued run timed out, and the signal was aborted afterwards (an
\* abort before the timeout would have rejected the run with AbortError).
C12_Witness ==
    /\ defaultSignal # NoSignal
    /\ aborted[defaultSignal]
    /\ \E i \in RunIds : Removed(i) /\ runs[i] = "QueueTimeoutError"

(***************************************************************************)
(* C13.  Abort and queue timeout act only while a run is waiting.  An      *)
(* abort listener or queue timer of a run is armed only while that run     *)
(* waits, so once a run has been admitted (at once or by hand-off, started *)
(* or not) an abort of its signal or the expiry of its timeout does not    *)
(* reject it and changes neither active, the queue nor any other run.      *)
(***************************************************************************)
ArmedOnlyWhileWaiting ==
    \A i \in RunIds :
        (RunHandler(i) \in timers \/ \E s \in Signals : ListensOn(s, i))
            => runs[i] = "waiting"

C13_Step ==
    /\ \A i \in RunIds : QueueTimeout(i) => runs[i] = "waiting"
    /\ \A s \in Signals :
          (~aborted[s] /\ aborted'[s]) =>
              /\ active' = active
              /\ admitLog' = admitLog
              /\ \A i \in RunIds :
                    Admitted(i) => (runs'[i] = runs[i] /\ entries'[i] = entries[i])
              /\ (\A n \in RunIds : runs[n] = "waiting" => ~ListensOn(s, n))
                    => (queue' = queue /\ runs' = runs /\ entries' = entries)

C13_OnlyWhileWaiting == []ArmedOnlyWhileWaiting /\ [][C13_Step]_vars

\* Every run uses the limiter's default signal; a run was handed the slot, and
\* the signal was aborted before its task started (an earlier abort would have
\* rejected the run): the run is still admitted.
C13_Witness ==
    /\ defaultSignal # NoSignal
    /\ aborted[defaultSignal]
    /\ \E i \in RunIds : HandedOff(i) /\ runs[i] = "admitted"

(***************************************************************************)
(* C14.  Every admitted task triggers release exactly once when it ends,   *)
(* whether it succeeds or fails: the step in which a task ends performs    *)
(* one release (hand-off to the head of the queue, or active - 1 when the  *)
(* queue is empty), active never drops otherwise, an ended run never acts  *)
(* again, a failure is reported as the task's own error, and the gate's    *)
(* bookkeeping after a failure equals that after a success.                *)
(***************************************************************************)
TaskEnds(i) ==
    /\ runs[i] \in {"admitted", "running"}
    /\ runs'[i] \in {"fulfilled", "TaskError"}

OneRelease ==
    IF queue = <<>>
    THEN active' = active - 1 /\ queue' = <<>>
    ELSE /\ active' = active
         /\ queue' = Tail(queue)
         /\ runs[Head(queue)] = "waiting" /\ runs'[Head(queue)] = "admitted"

C14_Step ==
    /\ \A i \in RunIds : TaskEnds(i) => OneRelease
    /\ active' < active =>
          /\ active' = active - 1
          /\ Cardinality({i \in RunIds : TaskEnds(i)}) = 1
    /\ \A i \in RunIds :
          runs[i] \in {"fulfilled", "TaskError"} => runs'[i] = runs[i]

SameBookkeeping ==
    \A i \in RunIds :
        runs[i] \in {"admitted", "running"} =>
            [settleTask(Heap, i, "TaskError") EXCEPT !.runs[i] = "ended"]
                = [settleTask(Heap, i, "fulfilled") EXCEPT !.runs[i] = "ended"]

C14_ReleaseOnEveryExit == []SameBookkeeping /\ [][C14_Step]_vars

\* A task failed, a run queued behind it was handed the slot and completed,
\* and the gate has drained.
C14_Witness ==
    /\ active = 0 /\ queue = <<>>
    /\ \E a, b \in RunIds :
          a < b /\ runs[a] = "TaskError" /\ HandedOff(b) /\ runs[b] = "fulfilled"

(***************************************************************************)
(* C15.  The cleanup closures of a queue entry (listener detachment, timer *)
(* cancellation) run exactly once, whichever of hand-off, abort or timeout *)
(* removes the entry: while the entry waits its cleanup list holds exactly *)
(* one closure per armed listener / timer; the step that removes the entry *)
(* empties the list and disarms them; `removed` never goes back, and       *)
(* remove() / removeFromQueue() on a removed entry change nothing.  So no  *)
(* timer and no abort listener of a settled run is armed.                  *)
(***************************************************************************)
CleanupOf(i) == Range(entries[i].cleanup)

CleanupMatchesArmed(i) ==
    /\ Cardinality(CleanupOf(i)) = Len(entries[i].cleanup)
    /\ \A c \in CleanupOf(i) :
          /\ c.handler = RunHandler(i)
          /\ c.fn = "rmAbort" => ListensOn(c.signal, i)
          /\ c.fn = "clearTimeout" => RunHandler(i) \in timers
    /\ \A s \in Signals : ListensOn(s, i) => RmAbort(s, RunHandler(i)) \in CleanupOf(i)
    /\ RunHandler(i) \in timers => ClearTimeout(RunHandler(i)) \in CleanupOf(i)

NothingArmed(i) ==
    /\ RunHandler(i) \notin timers
    /\ \A s \in Signals : ~ListensOn(s, i)

C15_CleanupState ==
    \A i \in RunIds :
        /\ CleanupMatchesArmed(i)
        /\ WasQueued(i) => (entries[i].removed <=> entries[i].settled)
        /\ entries[i].removed =>
              /\ entries[i].cleanup = <<>>
              /\ remove(Heap, i) = Heap
              /\ removeFromQueue(Heap, i) = Heap
        /\ runs[i] # "waiting" => NothingArmed(i)

C15_Step ==
    \A i \in RunIds :
        /\ entries[i].removed => entries'[i].removed
        /\ (~entries[i].removed /\ entries'[i].removed) =>
              (entries'[i].cleanup = <<>> /\ NothingArmed(i)')

C15_CleanupOnce == []C15_CleanupState /\ [][C15_Step]_vars

\* Every run has a signal and a queue timeout (the limiter's defaults); one
\* queued run was removed by hand-off, one by abort and one by timeout.
C15_Witness ==
    /\ defaultSignal # NoSignal
    /\ defaultQueueTimeoutMs # undefined
    /\ \E a, b, c \in RunIds :
          /\ HandedOff(a)
          /\ Removed(b) /\ runs[b] = "AbortError"
          /\ Removed(c) /\ runs[c] = "QueueTimeoutError"

(***************************************************************************)
(* C16.  Assuming every admitted task eventually completes (Fairness):     *)
(* every submission is eventually settled (completed, overflowed, aborted  *)
(* or timed out); a queued submission with no abort listener and no timer  *)
(* eventually runs and completes; and, the number of submissions being     *)
(* finite, the gate ends with active = 0 and pendingCount = 0 for good.    *)
(***************************************************************************)
Submitted(i) == runs[i] \in {"waiting", "admitted", "running"}

Completed(i) == runs[i] \in {"fulfilled", "TaskError"}

Settled(i) ==
    runs[i] \in {"fulfilled", "TaskError", "QueueOverflowError", "AbortError",
                 "QueueTimeoutError", "RangeError"}

\* No submission is outstanding and the gate is drained.
Quiescent ==
    /\ \A i \in RunIds : ~Submitted(i)
    /\ active = 0
    /\ Len(queue) = 0

\* A settled submission stays settled as it is; a queued submission with no
\* listener and no timer leaves the queue only by being given a slot, and a
\* task that holds a slot ends only by completing.
C16_Step ==
    \A i \in RunIds :
        /\ Settled(i) => runs'[i] = runs[i]
        /\ (runs[i] = "waiting" /\ NothingArmed(i)) =>
              runs'[i] \in {"waiting", "admitted"}
        /\ runs[i] = "admitted" => (runs'[i] = "admitted" \/ runs'[i] = "running" \/ Completed(i)')
        /\ runs[i] = "running" => (runs'[i] = "running" \/ Completed(i)')

C16_EventuallySettled == [][C16_Step]_vars /\ <>[]Quiescent

\* Three tasks ran to completion, two of them after waiting in the queue, no
\* signal was aborted and the gate has drained.
C16_Witness ==
    /\ GateIdle
    /\ \A s \in Signals : ~aborted[s]
    /\ \A i \in RunIds : runs[i] # "uncalled" => Completed(i)
    /\ \E a, b, c \in RunIds :
          /\ a # b /\ c \notin {a, b}
          /\ HandedOff(a) /\ HandedOff(b) /\ Completed(c)

(***************************************************************************)
(* C17.  When the timer of a pending onIdle call fires, the call fails     *)
(* with IdleTimeoutError (never QueueTimeoutError, which only run() calls  *)
(* get), while active, the queue, the queue entries, every run and every   *)
(* other onIdle call stay as they are; and once an onIdle call has timed   *)
(* out and the gate has drained, a fresh onIdle call (valid timeout,       *)
(* signal absent or not aborted) resolves at once.                         *)
(***************************************************************************)
TimedOutIdle(j) == idles[j].pc = "IdleTimeoutError"

C17_Kinds ==
    /\ \A j \in IdleIds : idles[j].pc # "QueueTimeoutError"
    /\ \A i \in RunIds : runs[i] # "IdleTimeoutError"
    /\ \A j \in IdleIds : IdleHandler(j) \in timers => idles[j].pc = "pending"

C17_Step ==
    /\ \A j \in IdleIds :
          (idles'[j] # idles[j] /\ IdleTimeout(j)) =>
              /\ TimedOutIdle(j)'
              /\ active' = active
              /\ queue' = queue
              /\ entries' = entries
              /\ runs' = runs
              /\ admitLog' = admitLog
              /\ \A k \in IdleIds \ {j} : idles'[k] = idles[k]
    /\ \A s \in SignalOptions, ms \in TimeoutOptions :
          (/\ nextIdle' # nextIdle
           /\ OnIdle(s, ms)
           /\ \E j \in IdleIds : TimedOutIdle(j)
           /\ GateIdle
           /\ ValidTimeout(ms)
           /\ ~isAborted(s)) => idles'[nextIdle].pc = "resolved"

C17_IdleTimeout == []C17_Kinds /\ [][C17_Step]_vars

\* An onIdle call timed out while a task was running; the task then completed
\* unharmed and a later onIdle call resolved without registering.
C17_Witness ==
    \E j, k \in IdleIds, i \in RunIds :
        /\ j < k
        /\ TimedOutIdle(j)
        /\ runs[i] = "fulfilled"
        /\ GateIdle
        /\ idles[k].pc = "resolved" /\ ~idles[k].done

(***************************************************************************)
(* C18.  A pending onIdle call is settled exactly once, by the first of    *)
(* idle notification, abort and timeout: the idle-waiter set holds exactly *)
(* the pending calls, each once; a pending call's cleanup list mirrors its *)
(* waiter, listener and timer; the settling step empties the list and      *)
(* deregisters all three, so finish() with any argument changes nothing    *)
(* afterwards and a settled call keeps its outcome.                        *)
(***************************************************************************)
PendingIdle(j) == idles[j].pc = "pending"

SettledIdle(j) == idles[j].pc \in {"resolved", "AbortError", "IdleTimeoutError"}

IdleListensOn(s, j) == IdleHandler(j) \in Range(listeners[s])

IdleCleanupOf(j) == Range(idles[j].cleanups)

IdleCleanupMatches(j) ==
    /\ Cardinality(IdleCleanupOf(j)) = Len(idles[j].cleanups)
    /\ \A c \in IdleCleanupOf(j) : c.handler = IdleHandler(j)
    /\ PendingIdle(j) <=>
          [fn |-> "deleteWaiter", signal |-> NoSignal, handler |-> IdleHandler(j)]
              \in IdleCleanupOf(j)
    /\ \A s \in Signals :
          IdleListensOn(s, j) <=> RmAbort(s, IdleHandler(j)) \in IdleCleanupOf(j)
    /\ IdleHandler(j) \in timers <=> ClearTimeout(IdleHandler(j)) \in IdleCleanupOf(j)

C18_Registered ==
    /\ Range(idleWaiters) = {j \in IdleIds : PendingIdle(j)}
    /\ Cardinality(Range(idleWaiters)) = Len(idleWaiters)
    /\ \A j \in IdleIds :
          /\ IdleCleanupMatches(j)
          /\ PendingIdle(j) => ~idles[j].done
          /\ idles[j].done => SettledIdle(j)
          /\ ~PendingIdle(j) =>
                /\ idles[j].cleanups = <<>>
                /\ IdleHandler(j) \notin timers
                /\ \A s \in Signals : ~IdleListensOn(s, j)
          /\ idles[j].done =>
                \A err \in {"", "AbortError", "IdleTimeoutError"} :
                    finish(Heap, j, err) = Heap

C18_Step ==
    \A j \in IdleIds :
        /\ (SettledIdle(j) \/ idles[j].pc = "RangeError") => idles'[j] = idles[j]
        /\ (PendingIdle(j) /\ ~PendingIdle(j)') =>
              \/ idles'[j].pc = "resolved" /\ GateIdle'
              \/ idles'[j].pc = "AbortError" /\ \E s \in Signals :
                     IdleListensOn(s, j) /\ ~aborted[s] /\ aborted'[s]
              \/ idles'[j].pc = "IdleTimeoutError" /\ IdleHandler(j) \in timers

C18_IdleSettledOnce == []C18_Registered /\ [][C18_Step]_vars

\* Three registered onIdle calls were settled, one by each of the three events.
C18_Witness ==
    \E a, b, c \in IdleIds :
        /\ idles[a].pc = "resolved" /\ idles[a].done
        /\ idles[b].pc = "AbortError" /\ idles[b].done
        /\ idles[c].pc = "IdleTimeoutError" /\ idles[c].done

\* Everything an onIdle call could register or touch besides its own outcome.
NothingRegistered ==
    /\ idleWaiters' = idleWaiters
    /\ listeners' = listeners
    /\ timers' = timers
    /\ active' = active
    /\ queue' = queue
    /\ entries' = entries
    /\ runs' = runs
    /\ \A k \in IdleIds \ {nextIdle} : idles'[k] = idles[k]

(***************************************************************************)
(* C19.  An onIdle call that passes option validation, made while the gate *)
(* is idle (active = 0 and the queue empty) with a signal that is absent   *)
(* or not aborted, resolves in the call itself: the promise executor never *)
(* runs, so no idle-waiter, abort listener or timer is registered and      *)
(* active and the queue are unchanged.                                     *)
(***************************************************************************)
C19_Step ==
    \A s \in SignalOptions, ms \in TimeoutOptions :
        (/\ nextIdle' # nextIdle
         /\ OnIdle(s, ms)
         /\ ValidTimeout(ms)
         /\ GateIdle
         /\ ~isAborted(s)) =>
            /\ idles'[nextIdle] = [NoIdle EXCEPT !.pc = "resolved"]
            /\ NothingRegistered

C19_IdleFastPath == [][C19_Step]_vars

\* An onIdle call resolved on the fast path after a task had run to completion,
\* with no signal aborted: no waiter and no timer is registered.
C19_Witness ==
    \E j \in IdleIds :
        /\ idles[j] = [NoIdle EXCEPT !.pc = "resolved"]
        /\ \E i \in RunIds : i < nextRun /\ Completed(i)
        /\ \A s \in Signals : ~aborted[s]
        /\ idleWaiters = <<>> /\ timers = {}

(***************************************************************************)
(* C20.  An onIdle call that passes option validation and whose signal is  *)
(* already aborted fails with AbortError and registers nothing, also when  *)
(* the gate is idle at that moment: the abort check comes before the idle  *)
(* fast path.                                                              *)
(***************************************************************************)
C20_Step ==
    \A s \in Signals, ms \in TimeoutOptions :
        (/\ nextIdle' # nextIdle
         /\ OnIdle(s, ms)
         /\ ValidTimeout(ms)
         /\ aborted[s]) =>
            /\ idles'[nextIdle] = [NoIdle EXCEPT !.pc = "AbortError"]
            /\ NothingRegistered

C20_AbortBeforeIdle == [][C20_Step]_vars

\* No run was ever submitted, so the gate was idle at every call, and an
\* onIdle call failed with AbortError without having registered.
C20_Witness ==
    /\ nextRun = 1
    /\ GateIdle
    /\ \E j \in IdleIds : idles[j] = [NoIdle EXCEPT !.pc = "AbortError"]

(***************************************************************************)
(* C21.  Invalid numeric options give RangeError before any state change.  *)
(* Construction fails for a limit that is not a finite number > 0, a       *)
(* maxQueue that is negative or NaN, or a queueTimeoutMs that is negative  *)
(* or not finite, and then no field is assigned and no operation ever      *)
(* runs.  A run call whose queueTimeoutMs is invalid and an onIdle call    *)
(* whose timeoutMs is invalid fail with RangeError and admit, queue and    *)
(* register nothing, also when a slot is free or the signal is aborted.    *)
(***************************************************************************)
BadLimit(l) == ~(l.k = "fin" /\ l.h > 0)

BadMaxQueue(mq) == mq.k \in {"nan", "ninf"} \/ (mq.k = "fin" /\ mq.h < 0)

BadTimeout(ms) == ms.k \in {"nan", "inf", "ninf"} \/ (ms.k = "fin" /\ ms.h < 0)

Unconstructed ==
    /\ limit = undefined
    /\ maxQueue = undefined
    /\ defaultQueueTimeoutMs = undefined
    /\ defaultSignal = NoSignal
    /\ active = 0
    /\ queue = <<>>
    /\ idleWaiters = <<>>
    /\ nextRun = 1
    /\ nextIdle = 1

C21_Fields ==
    /\ constructed # "ok" => Unconstructed
    /\ constructed = "ok" =>
          ~BadLimit(limit) /\ ~BadMaxQueue(maxQueue) /\ ~BadTimeout(defaultQueueTimeoutMs)

C21_Step ==
    /\ constructed' # constructed =>
          \A l \in LimitArgs, mq \in MaxQueueArgs, ms \in QueueTimeoutArgs,
             s \in SignalOptions :
              (Construct(l, mq, ms, s) /\ (BadLimit(l) \/ BadMaxQueue(mq) \/ BadTimeout(ms)))
                  => (constructed' = "RangeError" /\ Unconstructed')
    /\ nextRun' # nextRun =>
          \A s \in SignalOptions, ms \in TimeoutOptions :
              (BadTimeout(ms) /\ Run(s, ms)) =>
                  (runs'[nextRun] = "RangeError" /\ GateUntouched)
    /\ nextIdle' # nextIdle =>
          \A s \in SignalOptions, ms \in TimeoutOptions :
              (BadTimeout(ms) /\ OnIdle(s, ms)) =>
                  (idles'[nextIdle] = [NoIdle EXCEPT !.pc = "RangeError"]
                   /\ NothingRegistered)

C21_RangeErrors == []C21_Fields /\ [][C21_Step]_vars

\* On a constructed limiter with a free slot, a run call and an onIdle call
\* each failed with RangeError although a signal was already aborted.
C21_Witness ==
    /\ constructed = "ok"
    /\ active = 0
    /\ \E s \in Signals : aborted[s]
    /\ \E i \in RunIds : runs[i] = "RangeError"
    /\ \E j \in IdleIds : idles[j].pc = "RangeError"

(***************************************************************************)
(* C22.  release() does exactly one of two things.  Either it resolves the *)
(* waiter of exactly one queued entry, the earliest that is neither        *)
(* tombstoned nor settled, and leaves active as it is; or, the queue       *)
(* holding no such entry, it empties the queue, decrements active by one   *)
(* and runs the idle check.  Tombstoned and settled entries in front are   *)
(* discarded and never take the slot.  Checked on every step that runs     *)
(* release() and, since the public operations never leave a stale entry in *)
(* the queue, on release() applied to every reachable state with any of    *)
(* its queued entries left tombstoned (removed and rejected, not spliced)  *)
(* or settled (rejected, not removed).                                     *)
(***************************************************************************)
EntryKinds == {"live", "tombstoned", "settled"}

RECURSIVE StaleHeap(_, _, _)
StaleHeap(H, q, m) ==
    IF q = <<>> THEN H
    ELSE LET i == Head(q)
             H1 == CASE m[i] = "live" -> H
                     [] m[i] = "tombstoned" -> deferReject(remove(H, i), i, "AbortError").H
                     [] m[i] = "settled" -> deferReject(H, i, "AbortError").H
         IN StaleHeap(H1, Tail(q), m)

\* What the claim says of release() called on heap H, with result O.
ReleaseOutcome(H, O) ==
    LET live == SelectSeq(H.queue, LAMBDA n : ~H.entries[n].removed /\ ~H.entries[n].settled)
    IN IF live # <<>>
       THEN LET first == Head(live) IN
            /\ O.runs = [H.runs EXCEPT ![first] = "admitted"]
            /\ O.entries[first].settled /\ O.entries[first].removed
            /\ O.active = H.active
            /\ O.queue = SubSeq(H.queue, indexOf(H.queue, first) + 1, Len(H.queue))
            /\ O.admitLog = Append(H.admitLog, first)
            /\ O.idles = H.idles
       ELSE /\ O.runs = H.runs
            /\ O.queue = <<>>
            /\ O.active = H.active - 1
            /\ O.admitLog = H.admitLog
            /\ IF O.active = 0
               THEN O.idleWaiters = <<>> /\
                    \A j \in IdleIds : H.idles[j].pc = "pending" => O.idles[j].pc = "resolved"
               ELSE O.idleWaiters = H.idleWaiters /\ O.idles = H.idles

C22_OnStaleQueues ==
    active > 0 =>
        \A m \in [Range(queue) -> EntryKinds] :
            LET H == StaleHeap(Heap, queue, m) IN ReleaseOutcome(H, release(H))

C22_Step ==
    \A i \in RunIds :
        TaskEnds(i) =>
            ReleaseOutcome([Heap EXCEPT !.runs[i] = runs'[i]], Heap')

C22_ReleaseOutcome == []C22_OnStaleQueues /\ [][C22_Step]_vars

\* Two runs wait behind a running task; with the first of them left
\* tombstoned in the queue, release() discards it and resolves the second.
C22_Witness ==
    /\ active > 0
    /\ Len(queue) >= 2
    /\ LET H == StaleHeap(Heap, queue, [n \in Range(queue) |->
                    IF n = queue[1] THEN "tombstoned" ELSE "live"])
       IN /\ release(H).runs[queue[2]] = "admitted"
          /\ release(H).runs[queue[1]] = "AbortError"
          /\ release(H).active = active

(***************************************************************************)
(* C23.  For every limit the constructor accepts, integer or not,          *)
(* activeCount <= limit in every reachable state.  The constructor accepts *)
(* 0.5 and 1.5, and acquire() admits while active < limit, so active       *)
(* reaches 1 under limit 0.5: the statement does not hold of the code.     *)
(***************************************************************************)
C23_ActiveWithinAnyLimit ==
    constructed = "ok" => NumLe(Num(active), limit)

(***************************************************************************)
(* C24.  No barging.  With an integer limit, whenever the queue is not     *)
(* empty active equals limit: a free slot never coexists with a waiting    *)
(* run, and a run call is admitted at once only when no earlier run is     *)
(* still waiting.                                                          *)
(***************************************************************************)
IntegerLimit == limit.k = "fin" /\ limit.h % 2 = 0

SomeWaiting == \E k \in RunIds : runs[k] = "waiting"

C24_FullWhileQueued ==
    IntegerLimit =>
        /\ queue # <<>> => Num(active) = limit
        /\ SomeWaiting => queue # <<>>
        /\ hasFreeSlot(Heap) => ~SomeWaiting

C24_Step ==
    IntegerLimit =>
        \A i \in RunIds :
            (runs[i] = "uncalled" /\ runs'[i] = "admitted") => ~SomeWaiting

C24_NoBarging == []C24_FullWhileQueued /\ [][C24_Step]_vars

\* With limit 2 a run still waits while both slots are held, one of them by a
\* run that was handed its slot from the queue.
C24_Witness ==
    /\ limit = Num(2)
    /\ active = 2
    /\ queue # <<>>
    /\ \E a \in RunIds : HandedOff(a) /\ runs[a] = "running"

(***************************************************************************)
(* C25.  Slot accounting.  In every reachable state active is the number   *)
(* of runs that were admitted (at once or by hand-off) and whose release() *)
(* has not run yet: each such run holds one slot, and waiting, aborted,    *)
(* timed-out, overflowed and rejected runs hold none.  A step changes      *)
(* active by the number of runs that take a slot less those that end.      *)
(***************************************************************************)
HoldsSlot(i) == runs[i] \in {"admitted", "running"}

SlotHolders == {i \in RunIds : HoldsSlot(i)}

C25_ActiveIsHolders == active = Cardinality(SlotHolders)

C25_Step ==
    /\ active' - active = Cardinality(SlotHolders' \ SlotHolders)
                            - Cardinality(SlotHolders \ SlotHolders')
    /\ \A i \in RunIds :
          (HoldsSlot(i) /\ ~HoldsSlot(i)') => TaskEnds(i)
    /\ \A i \in RunIds :
          (~HoldsSlot(i) /\ HoldsSlot(i)') => runs[i] \in {"uncalled", "waiting"}

C25_SlotAccounting == []C25_ActiveIsHolders /\ [][C25_Step]_vars

\* Both slots are held, one by a run admitted at once and one by a run handed
\* its slot from the queue, while another run has overflowed and holds none.
C25_Witness ==
    /\ active = 2
    /\ \E a, b, c \in RunIds :
          /\ HoldsSlot(a) /\ ~WasQueued(a)
          /\ HoldsSlot(b) /\ WasQueued(b)
          /\ runs[c] = "QueueOverflowError"

(***************************************************************************)
(* C26.  No missed idle.  In every reachable state (between operations),   *)
(* if active = 0 and the queue is empty then the idle-waiter set is empty: *)
(* no onIdle call is left pending while the gate is idle.                  *)
(***************************************************************************)
C26_NoMissedIdle ==
    GateIdle =>
        /\ idleWaiters = <<>>
        /\ \A j \in IdleIds : idles[j].pc # "pending"

\* The gate has drained after two onIdle calls had registered while a task
\* was running; both were notified and none is pending.
C26_Witness ==
    /\ GateIdle
    /\ \E i \in RunIds : Completed(i)
    /\ \E j, k \in IdleIds :
          /\ j # k
          /\ idles[j].pc = "resolved" /\ idles[j].done
          /\ idles[k].pc = "resolved" /\ idles[k].done

(***************************************************************************)
(* C27.  Removal never produces idleness.  When an abort or a queue        *)
(* timeout removes a queued entry, active is unchanged and at least 1      *)
(* afterwards, so the idle check of removeFromQueue resolves no onIdle     *)
(* call; a pending onIdle call is resolved only by a step in which a task  *)
(* ends and release() takes active from 1 to 0.                            *)
(***************************************************************************)
RemovedInStep(i) ==
    runs[i] = "waiting" /\ runs'[i] \in {"AbortError", "QueueTimeoutError"}

ResolvedInStep(j) == idles[j].pc = "pending" /\ idles'[j].pc = "resolved"

C27_Step ==
    /\ \A i \in RunIds :
          RemovedInStep(i) =>
              /\ active' = active
              /\ active' >= 1
              /\ ~GateIdle'
              /\ \A j \in IdleIds : ~ResolvedInStep(j)
    /\ \A j \in IdleIds :
          ResolvedInStep(j) =>
              /\ ReleaseStep
              /\ active = 1
              /\ active' = 0

\* The idle check inside removeFromQueue, applied to any waiting run, leaves
\* every onIdle call and the idle-waiter set as they are.
C27_RemoveKeepsWaiters ==
    \A i \in RunIds :
        runs[i] = "waiting" =>
            LET O == removeFromQueue(Heap, i)
            IN O.idles = idles /\ O.idleWaiters = idleWaiters /\ O.active >= 1

C27_RemovalNeverIdle == []C27_RemoveKeepsWaiters /\ [][C27_Step]_vars

\* The only queued run was removed by its timeout while an onIdle call was
\* pending: the queue is empty, a task still runs and the call still waits.
C27_Witness ==
    /\ queue = <<>>
    /\ active >= 1
    /\ \E i \in RunIds : Removed(i) /\ runs[i] = "QueueTimeoutError"
    /\ \E j \in IdleIds : idles[j].pc = "pending"

(***************************************************************************)
(* C28.  Hand-off never loses a race.  In every reachable state every      *)
(* entry in the queue is neither removed nor settled, so the first entry   *)
(* release() pops is the head of the queue, its resolve() succeeds and the *)
(* retry branch for a failed resolve is not taken: a release with a        *)
(* non-empty queue pops exactly one entry and admits it.                   *)
(***************************************************************************)
FirstPop ==
    LET s == shiftNext(Heap)
        r == deferResolve(remove(s.H, s.next), s.next)
    IN /\ s.next = Head(queue)
       /\ s.H.queue = Tail(queue)
       /\ r.ok
       /\ release(Heap) = r.H

C28_QueueIsLive ==
    /\ \A n \in Range(queue) :
          /\ ~entries[n].removed
          /\ ~entries[n].settled
          /\ runs[n] = "waiting"
    /\ queue # <<>> => FirstPop

C28_Step ==
    (ReleaseStep /\ queue # <<>>) =>
        /\ queue' = Tail(queue)
        /\ runs'[Head(queue)] = "admitted"
        /\ entries'[Head(queue)].settled

C28_FirstPopWins == []C28_QueueIsLive /\ [][C28_Step]_vars

\* A run was handed its slot at the first pop after one run queued before it
\* had been aborted and another had timed out.
C28_Witness ==
    \E a, b, c \in RunIds :
        /\ b < a /\ c < a
        /\ HandedOff(a)
        /\ Removed(b) /\ runs[b] = "AbortError"
        /\ Removed(c) /\ runs[c] = "QueueTimeoutError"

====
